---- MODULE Spec2Model ----
(***************************************************************************)
(* Batch training with Ray Core (doc/source/ray-core/examples/             *)
(* batch_training.ipynb): the driver `run`, the two task generators, the   *)
(* staging task `read_into_object_store`, the partition pipeline `task`,   *)
(* `train_and_evaluate` and the nested `fit_and_score_sklearn` units.      *)
(***************************************************************************)
EXTENDS Integers, Sequences, FiniteSets, TLC

VARIABLES
    mode,        \* which generator run() was given: "direct" | "staged"
    files,       \* run(files, ...): list of parquet files
    models,      \* run(..., models): list of estimators
    runpc,       \* position of the driver (run and the generator it drains)
    fi,          \* task_generator: index of the file the for loop is at
    located,     \* task_generator: outcome of pq.read_table per file position
    pg,          \* placement group: "none" | "created" | "ready" | "removed"
    pgRemoves,   \* number of remove_placement_group calls executed
    loads,       \* load_tasks: one read_into_object_store task per position
    group_refs,  \* dict file -> list of (i, ref), with its insertion order
    store,       \* Ray object store: handle -> value
    tasks,       \* task_refs: the task.remote() pipelines, in yield order
    results,     \* run: results of ray.get(task_refs)
    count,       \* run: len(results)
    count_not_none  \* run: len(results_not_none)

vars == << mode, files, models, runpc, fi, located, pg, pgRemoves, loads,
           group_refs, store, tasks, results, count, count_not_none >>

----------------------------------------------------------------------------
(* Bounds of the explored inputs *)

MaxFiles == 2      \* longest list of files handed to run
MaxModels == 2     \* longest list of models handed to run

(* The parquet files that exist, and what they hold.  A row is "ok",      *)
(* "na" (dropoff_location_id missing) or "bad" (pickup_at not parseable   *)
(* with the format transform_batch demands).                              *)
Sources == {"A", "B"}

KeysOf(file) ==
    CASE file = "A" -> << 1, 2 >>
      [] file = "B" -> << 1 >>

Rows(file, i) ==
    CASE file = "A" /\ i = 1 -> << "ok", "na", "ok", "ok" >>
      [] file = "A" /\ i = 2 -> << "ok", "ok", "ok" >>
      [] file = "B" /\ i = 1 -> << "ok", "bad", "ok", "ok" >>
      [] OTHER -> << >>

(* The estimators a caller can pass.  "bad" raises in fit; the others     *)
(* fit and predict; "tree" and "rnd" score the same error.                *)
Routines == {"lin", "tree", "rnd", "bad"}

Fails(model) == model = "bad"

Error(model) == IF model = "lin" THEN 2 ELSE 1

SeqsUpTo(S, lo, hi) == UNION { [1..n -> S] : n \in lo..hi }

----------------------------------------------------------------------------
(* Values *)

None == [isNone |-> TRUE, list |-> << >>]

Some(l) == [isNone |-> FALSE, list |-> l]

NoHandle == [kind |-> "none", p |-> 0, i |-> 0]

PathArg(file) == [kind |-> "path", file |-> file, h |-> NoHandle]

RefArg(file, h) == [kind |-> "ref", file |-> file, h |-> h]

BatchHandle(p, i) == [kind |-> "batch", p |-> p, i |-> i]

TrainHandle(t) == [kind |-> "train", p |-> t, i |-> 0]

TestHandle(t) == [kind |-> "test", p |-> t, i |-> 0]

Range(s) == { s[j] : j \in 1..Len(s) }

RECURSIVE Concat(_)
Concat(ss) == IF ss = << >> THEN << >> ELSE Head(ss) \o Concat(Tail(ss))

RECURSIVE SubSeqAt(_, _)
(* rows of df at the index set idx, in df order *)
SubSeqAt(df, idx) ==
    IF df = << >> THEN << >>
    ELSE LET n == Len(df)
             front == SubSeqAt(SubSeq(df, 1, n - 1), idx)
         IN IF n \in idx THEN Append(front, df[n]) ELSE front

----------------------------------------------------------------------------
(* Pure functions of the notebook *)

MinRows == 4       \* train_and_evaluate: "if len(df) < 4"

(* transform_batch: pd.to_datetime(..., format=...) raises on a value it  *)
(* cannot parse; fillna(-1) fills the missing location ids.  The number   *)
(* of rows is unchanged.                                                  *)
FillRow(row) == IF row = "na" THEN "filled" ELSE row

transform_batch(df) ==
    IF \E j \in 1..Len(df) : df[j] = "bad"
    THEN [raised |-> TRUE, df |-> << >>]
    ELSE [raised |-> FALSE, df |-> [j \in 1..Len(df) |-> FillRow(df[j])]]

(* train_test_split(df): no random_state is passed, so each call draws a  *)
(* fresh shuffle; the test part has ceil(0.25 * n) rows.                  *)
NTest(n) == (n + 3) \div 4

train_test_split(df) ==
    { [train |-> SubSeqAt(df, (1..Len(df)) \ idx), test |-> SubSeqAt(df, idx)] :
      idx \in { s \in SUBSET (1..Len(df)) : Cardinality(s) = NTest(Len(df)) } }

(* the guard written as 0 < len(df) < 4: an empty batch passes it *)
TooSmallNonEmpty(df) == Len(df) > 0 /\ Len(df) < MinRows

(* the guard with the bound off by one *)
TooSmallOffByOne(df) == Len(df) < MinRows - 1

(* train_and_evaluate, the guard on the batch size *)
TooSmall(df) == Len(df) < MinRows

(* fit_and_score_sklearn(train, test, model) -> (model, error) *)
fit_and_score_sklearn(j, model) ==
    [raised |-> Fails(model), idx |-> j, model |-> model, error |-> Error(model)]

(* an unstable sort: an entry goes before the entries of equal error *)
RECURSIVE InsertBeforeEqual(_, _)
InsertBeforeEqual(sorted, x) ==
    IF sorted = << >> THEN << x >>
    ELSE IF Head(sorted).error < x.error
         THEN << Head(sorted) >> \o InsertBeforeEqual(Tail(sorted), x)
         ELSE << x >> \o sorted

(* list.sort(key=lambda x: x[1]): stable, ascending in the error *)
RECURSIVE InsertByError(_, _)
InsertByError(sorted, x) ==
    IF sorted = << >> THEN << x >>
    ELSE IF Head(sorted).error <= x.error
         THEN << Head(sorted) >> \o InsertByError(Tail(sorted), x)
         ELSE << x >> \o sorted

(* the sort is left out *)
NoSort(l) == l

RECURSIVE SortByError(_)
SortByError(l) ==
    IF l = << >> THEN << >>
    ELSE InsertByError(SortByError(SubSeq(l, 1, Len(l) - 1)), l[Len(l)])

(* ray.get(list of refs): the values in the order of the list *)
UnitResults(ms) == [j \in 1..Len(ms) |-> fit_and_score_sklearn(j, ms[j])]

(* the tuple `file_name, i, train_and_evaluate(...)` that task returns;   *)
(* a tuple is never Python's None                                         *)
Tuple3(file_name, i, ranking) ==
    [isNone |-> FALSE, file_name |-> file_name, i |-> i, ranking |-> ranking]

(* run: results_not_none = [x for x in results if x is not None] *)
NotNone(rs) == SelectSeq(rs, LAMBDA x : ~x.isNone)

(* group_refs[file] = refs on an insertion-ordered dict *)
RECURSIVE DictSet(_, _, _)
DictSet(d, k, v) ==
    IF d = << >> THEN << [file |-> k, refs |-> v] >>
    ELSE IF Head(d).file = k
         THEN << [file |-> k, refs |-> v] >> \o Tail(d)
         ELSE << Head(d) >> \o DictSet(Tail(d), k, v)

RECURSIVE BuildGroupRefsAsCompleted(_, _)
(* the lists of refs are taken in the order in which the staging tasks    *)
(* completed: those of the tasks that ended ahead of an earlier one first *)
BuildGroupRefsAsCompleted(ls, n) ==
    LET os == SelectSeq(ls, LAMBDA x : x.overtook) \o
              SelectSeq(ls, LAMBDA x : ~x.overtook)
    IN IF n = 0 THEN << >>
       ELSE DictSet(BuildGroupRefsAsCompleted(ls, n - 1), ls[n].file, os[n].refs)

RECURSIVE BuildGroupRefs(_, _)
(* for i, refs in enumerate(ray.get(load_tasks)): group_refs[files[i]] = refs *)
BuildGroupRefs(ls, n) ==
    IF n = 0 THEN << >>
    ELSE DictSet(BuildGroupRefs(ls, n - 1), ls[n].file, ls[n].refs)

----------------------------------------------------------------------------
(* State after construction: run(files, task_generator, models) was       *)
(* called and is about to drain the generator.                            *)

Init ==
    /\ mode \in {"direct", "staged"}
    /\ files \in SeqsUpTo(Sources, 1, MaxFiles)
    /\ models \in SeqsUpTo(Routines, 0, MaxModels)
    /\ runpc = IF mode = "direct" THEN "locate" ELSE "pg"
    /\ fi = 1
    /\ located = << >>
    /\ pg = "none"
    /\ pgRemoves = 0
    /\ loads = << >>
    /\ group_refs = << >>
    /\ store = << >>
    /\ tasks = << >>
    /\ results = << >>
    /\ count = 0
    /\ count_not_none = 0

(* task.remote(data, file_name, i, models, load_data_func) *)
NewTask(data, file_name, i, load) ==
    [data |-> data, file_name |-> file_name, i |-> i, load |-> load,
     pc |-> "submitted", err |-> "", df |-> << >>,
     train_ref |-> NoHandle, test_ref |-> NoHandle, uargs |-> << >>,
     fin |-> << >>, ranking |-> None, steps |-> << >>, overtook |-> FALSE]

(* a pipeline dispatched before t has not ended *)
Overtakes(t) ==
    \E u \in 1..Len(tasks) : u < t /\ tasks[u].pc \notin {"done", "raised"}

----------------------------------------------------------------------------
(* task_generator (direct mode) *)

LocateOutcomes == {"ok", "unreadable"}

(* `break` in place of `continue`: an unreadable file ends the loop      *)
AfterLocateBreak(r, at, n) ==
    IF r = "unreadable" \/ at = n THEN "get" ELSE "locate"

(* `except Exception: continue`: the loop goes on with the next file and *)
(* the generator ends after the last one                                 *)
AfterLocate(r, at, n) == IF at = n THEN "get" ELSE "locate"

(* for i in loc_list: yield task.remote(file, file, i, models, read_data) *)
DirectTasks(file) ==
    [k \in 1..Len(KeysOf(file)) |->
        NewTask(PathArg(file), file, KeysOf(file)[k], TRUE)]

(* the generator collects the pipelines it has yielded before it moves   *)
(* to the next file                                                      *)
GenLocateSync ==
    /\ runpc = "locate"
    /\ fi <= Len(files)
    /\ \A t \in 1..Len(tasks) : tasks[t].pc = "done"
    /\ \E r \in LocateOutcomes :
         /\ located' = Append(located, r)
         /\ tasks' = IF r = "ok" THEN tasks \o DirectTasks(files[fi]) ELSE tasks
         /\ runpc' = AfterLocate(r, fi, Len(files))
    /\ fi' = fi + 1
    /\ UNCHANGED << mode, files, models, pg, pgRemoves, loads, group_refs,
                    store, results, count, count_not_none >>

(* one iteration of `for file in files`: read the key column, skip the    *)
(* file on an exception, otherwise yield one task per distinct key        *)
GenLocate ==
    /\ runpc = "locate"
    /\ fi <= Len(files)
    /\ \E r \in LocateOutcomes :
         /\ located' = Append(located, r)
         /\ tasks' = IF r = "ok" THEN tasks \o DirectTasks(files[fi]) ELSE tasks
         /\ runpc' = AfterLocate(r, fi, Len(files))
    /\ fi' = fi + 1
    /\ UNCHANGED << mode, files, models, pg, pgRemoves, loads, group_refs,
                    store, results, count, count_not_none >>

----------------------------------------------------------------------------
(* read_into_object_store and task_generator_with_object_store (staged)   *)

(* pg = placement_group([{"CPU": 1}] * len(files), strategy="SPREAD") and *)
(* the driver blocks in ray.get(pg.ready())                               *)
PgCreate ==
    /\ runpc = "pg"
    /\ pg' = "created"
    /\ runpc' = "pgwait"
    /\ UNCHANGED << mode, files, models, fi, located, pgRemoves, loads,
                    group_refs, store, tasks, results, count, count_not_none >>

(* the cluster grants the reservation *)
PgReady ==
    /\ pg = "created"
    /\ pg' = "ready"
    /\ UNCHANGED << mode, files, models, runpc, fi, located, pgRemoves, loads,
                    group_refs, store, tasks, results, count, count_not_none >>

(* the staging tasks are submitted without waiting for the reservation *)
GenStageNoWait ==
    /\ runpc = "pgwait"
    /\ loads' = [p \in 1..Len(files) |->
                    [file |-> files[p], st |-> "pending", slot |-> 0,
                     read |-> "", refs |-> << >>, overtook |-> FALSE]]
    /\ runpc' = "getloads"
    /\ UNCHANGED << mode, files, models, fi, located, pg, pgRemoves,
                    group_refs, store, tasks, results, count, count_not_none >>

(* load_tasks = [read_into_object_store_pg.remote(file) for file in files] *)
(* and the driver blocks in ray.get(load_tasks)                            *)
GenStage ==
    /\ runpc = "pgwait"
    /\ pg = "ready"
    /\ loads' = [p \in 1..Len(files) |->
                    [file |-> files[p], st |-> "pending", slot |-> 0,
                     read |-> "", refs |-> << >>, overtook |-> FALSE]]
    /\ runpc' = "getloads"
    /\ UNCHANGED << mode, files, models, fi, located, pg, pgRemoves,
                    group_refs, store, tasks, results, count, count_not_none >>

(* the bundles of the placement group: [{"CPU": 1}] * len(files) *)
Bundles == 1..Len(files)

(* SPREAD reservation: every bundle is on a host of its own *)
HostOf(b) == b

(* a bundle has one CPU and a staging task needs one: the bundles no     *)
(* running staging task occupies                                         *)
FreeSlots ==
    { b \in Bundles :
        \A q \in 1..Len(loads) : ~(loads[q].st = "running" /\ loads[q].slot = b) }

(* the scheduler starts a staging task in the reserved placement group:  *)
(* the scheduling strategy names the group, not a bundle, so any bundle  *)
(* with a free CPU takes it                                              *)
LoadStart(p) ==
    /\ p \in 1..Len(loads)
    /\ loads[p].st = "pending"
    /\ pg = "ready"
    /\ \E b \in FreeSlots :
         loads' = [loads EXCEPT ![p].st = "running", ![p].slot = b]
    /\ UNCHANGED << mode, files, models, runpc, fi, located, pg, pgRemoves,
                    group_refs, store, tasks, results, count, count_not_none >>

StageOutcomes == {"ok", "unreadable", "putfail"}

(* the read is not guarded: an unreadable file fails the staging task    *)
StageStatusNoCatch(r) == IF r = "ok" THEN "done" ELSE "failed"

(* read_into_object_store: `try: pq.read_table(...) except Exception:    *)
(* return []` guards the read only; a later failure ends the task failed *)
StageStatus(r) == IF r = "putfail" THEN "failed" ELSE "done"

(* group_refs of read_into_object_store: (i, ray.put(batch of key i)) *)
StagedRefs(p, file) ==
    [k \in 1..Len(KeysOf(file)) |->
        [i |-> KeysOf(file)[k], ref |-> BatchHandle(p, KeysOf(file)[k])]]

StagedPuts(p, file) ==
    [h \in { BatchHandle(p, KeysOf(file)[k]) : k \in 1..Len(KeysOf(file)) }
        |-> Rows(file, h.i)]

(* a started read_into_object_store task runs to its end: the read fails and *)
(* the task returns [], or every batch is put and the list of (i, ref) is *)
(* returned, or a step after the guarded read raises                      *)
LoadRun(p) ==
    /\ p \in 1..Len(loads)
    /\ loads[p].st = "running"
    /\ \E r \in StageOutcomes :
         /\ loads' = [loads EXCEPT
                ![p].read = r,
                ![p].overtook = \E q \in 1..(p - 1) :
                                   loads[q].st \in {"pending", "running"},
                ![p].st = StageStatus(r),
                ![p].refs = IF r = "ok" THEN StagedRefs(p, loads[p].file)
                            ELSE << >>]
         /\ store' = IF r = "ok" THEN StagedPuts(p, loads[p].file) @@ store
                     ELSE store
    /\ UNCHANGED << mode, files, models, runpc, fi, located, pg, pgRemoves,
                    group_refs, tasks, results, count, count_not_none >>

(* ray.get(load_tasks) returns: fill group_refs, remove_placement_group   *)
GenGetLoads ==
    /\ runpc = "getloads"
    /\ \A p \in 1..Len(loads) : loads[p].st = "done"
    /\ group_refs' = BuildGroupRefs(loads, Len(loads))
    /\ pg' = "removed"
    /\ pgRemoves' = pgRemoves + 1
    /\ runpc' = "dispatch"
    /\ UNCHANGED << mode, files, models, fi, located, loads, store, tasks,
                    results, count, count_not_none >>

(* ray.get(load_tasks) raises the error of a failed staging task; the     *)
(* generator, list(...) and run propagate it                              *)
GenGetLoadsRaise ==
    /\ runpc = "getloads"
    /\ \E p \in 1..Len(loads) : loads[p].st = "failed"
    /\ runpc' = "raised"
    /\ UNCHANGED << mode, files, models, fi, located, pg, pgRemoves, loads,
                    group_refs, store, tasks, results, count, count_not_none >>

(* the pipelines are handed the path and load the partition themselves  *)
StagedTasksByPath(d) ==
    Concat([n \in 1..Len(d) |->
        [k \in 1..Len(d[n].refs) |->
            NewTask(PathArg(d[n].file), d[n].file, d[n].refs[k].i, TRUE)]])

(* for file, refs in group_refs.items(): for i, ref in refs:              *)
(*     yield task.remote(ref, file, i, models)                            *)
StagedTasks(d) ==
    Concat([n \in 1..Len(d) |->
        [k \in 1..Len(d[n].refs) |->
            NewTask(RefArg(d[n].file, d[n].refs[k].ref), d[n].file,
                    d[n].refs[k].i, FALSE)]])

GenDispatch ==
    /\ runpc = "dispatch"
    /\ tasks' = tasks \o StagedTasks(group_refs)
    /\ runpc' = "get"
    /\ UNCHANGED << mode, files, models, fi, located, pg, pgRemoves, loads,
                    group_refs, store, results, count, count_not_none >>

----------------------------------------------------------------------------
(* task (the partition pipeline), train_and_evaluate, the nested units    *)

ReadOutcomes == {"ok", "unreadable", "nokey"}

(* read_data(file, i): the rows with pickup_location_id = i; raises when  *)
(* the file cannot be read; no rows when the file holds none for i        *)
read_data(file, i, r) ==
    [raised |-> r = "unreadable",
     df |-> IF r = "ok" THEN Rows(file, i) ELSE << >>]

(* `if load_data_func: data = load_data_func(data, i)`; otherwise data is *)
(* the value of the object ref passed as the argument                     *)
LoadStep(tk, r) ==
    IF tk.load THEN read_data(tk.data.file, tk.i, r)
    ELSE [raised |-> FALSE, df |-> store[tk.data.h]]

Raised(t, tk, why, steps) ==
    [tk EXCEPT !.pc = "raised", !.err = why, !.steps = steps,
               !.overtook = Overtakes(t)]

Returned(t, tk, df, ranking, steps) ==
    [tk EXCEPT !.pc = "done", !.df = df, !.ranking = ranking, !.steps = steps,
               !.overtook = Overtakes(t)]

(* each unit is handed a copy of its own instead of the shared refs *)
SubmittedOwnCopies(t, tk, df, steps) ==
    [tk EXCEPT !.pc = "waiting", !.df = df,
               !.train_ref = TrainHandle(t), !.test_ref = TestHandle(t),
               !.uargs = [j \in 1..Len(models) |->
                            [train |-> [kind |-> "train", p |-> t, i |-> j],
                             test |-> [kind |-> "test", p |-> t, i |-> j],
                             model |-> models[j]]],
               !.steps = steps \o << "split", "put", "put" >>
                         \o [j \in 1..Len(models) |-> "submit"]]

(* train_and_evaluate up to ray.get: split, two puts, one                 *)
(* fit_and_score_sklearn.remote(train_ref, test_ref, model) per model     *)
Submitted(t, tk, df, steps) ==
    [tk EXCEPT !.pc = "waiting", !.df = df,
               !.train_ref = TrainHandle(t), !.test_ref = TestHandle(t),
               !.uargs = [j \in 1..Len(models) |->
                            [train |-> TrainHandle(t), test |-> TestHandle(t),
                             model |-> models[j]]],
               !.steps = steps \o << "split", "put", "put" >>
                         \o [j \in 1..Len(models) |-> "submit"]]

(* task t has been submitted and has not started: it waits for nothing   *)
(* but a worker                                                           *)
TaskRunnable(t) ==
    /\ t \in 1..Len(tasks)
    /\ tasks[t].pc = "submitted"

(* a task runs from its start to the point where it returns, raises or    *)
(* blocks in the ray.get of train_and_evaluate; every outcome of the run  *)
(* has a successor, so the step is enabled whenever the task is runnable  *)
TaskRun(t) ==
    /\ TaskRunnable(t)
    /\ \E r \in (IF tasks[t].load THEN ReadOutcomes ELSE {"ok"}) :
         LET tk == tasks[t]
             ld == LoadStep(tk, r)
             s1 == IF tk.load THEN << "load" >> ELSE << >>
             tr == transform_batch(ld.df)
             s2 == Append(s1, "transform")
             s3 == Append(s2, "evaluate")
         IN IF ld.raised
            THEN /\ tasks' = [tasks EXCEPT ![t] = Raised(t, tk, "load", s1)]
                 /\ store' = store
            ELSE IF tr.raised
            THEN /\ tasks' = [tasks EXCEPT ![t] = Raised(t, tk, "transform", s2)]
                 /\ store' = store
            ELSE IF TooSmall(tr.df)
            THEN /\ tasks' = [tasks EXCEPT ![t] = Returned(t, tk, tr.df, None, s3)]
                 /\ store' = store
            ELSE \E sp \in train_test_split(tr.df) :
                 /\ tasks' = [tasks EXCEPT ![t] = Submitted(t, tk, tr.df, s3)]
                 /\ store' = (TrainHandle(t) :> sp.train)
                             @@ (TestHandle(t) :> sp.test) @@ store
    /\ UNCHANGED << mode, files, models, runpc, fi, located, pg, pgRemoves,
                    loads, group_refs, results, count, count_not_none >>

(* the unit is started only once its pipeline has given its worker back, *)
(* which a pipeline blocked in ray.get does not do                        *)
UnitFinishAfterParent(t, j) ==
    /\ t \in 1..Len(tasks)
    /\ j \in 1..Len(tasks[t].uargs)
    /\ j \notin Range(tasks[t].fin)
    /\ tasks[t].pc # "waiting"
    /\ tasks' = [tasks EXCEPT ![t].fin = Append(@, j)]
    /\ UNCHANGED << mode, files, models, runpc, fi, located, pg, pgRemoves,
                    loads, group_refs, store, results, count, count_not_none >>

(* the unit drops a row of the train batch it was handed, in the store *)
UnitFinishInPlace(t, j) ==
    /\ t \in 1..Len(tasks)
    /\ j \in 1..Len(tasks[t].uargs)
    /\ j \notin Range(tasks[t].fin)
    /\ tasks' = [tasks EXCEPT ![t].fin = Append(@, j)]
    /\ store' = [store EXCEPT ![tasks[t].uargs[j].train] = Tail(@)]
    /\ UNCHANGED << mode, files, models, runpc, fi, located, pg, pgRemoves,
                    loads, group_refs, results, count, count_not_none >>

(* one fit_and_score_sklearn unit of task t runs to its end *)
UnitFinish(t, j) ==
    /\ t \in 1..Len(tasks)
    /\ j \in 1..Len(tasks[t].uargs)
    /\ j \notin Range(tasks[t].fin)
    /\ tasks' = [tasks EXCEPT ![t].fin = Append(@, j)]
    /\ UNCHANGED << mode, files, models, runpc, fi, located, pg, pgRemoves,
                    loads, group_refs, store, results, count, count_not_none >>

UnitFailed(tk, j) == fit_and_score_sklearn(j, tk.uargs[j].model).raised

(* ray.get of the unit refs returns; results.sort; task returns its tuple *)
TaskCollect(t) ==
    /\ t \in 1..Len(tasks)
    /\ tasks[t].pc = "waiting"
    /\ Range(tasks[t].fin) = 1..Len(tasks[t].uargs)
    /\ \A j \in 1..Len(tasks[t].uargs) : ~UnitFailed(tasks[t], j)
    /\ tasks' = [tasks EXCEPT
          ![t].pc = "done",
          ![t].overtook = Overtakes(t),
          ![t].ranking = Some(SortByError(UnitResults(
                [j \in 1..Len(tasks[t].uargs) |-> tasks[t].uargs[j].model]))),
          ![t].steps = tasks[t].steps \o << "get", "sort" >>]
    /\ UNCHANGED << mode, files, models, runpc, fi, located, pg, pgRemoves,
                    loads, group_refs, store, results, count, count_not_none >>

(* ray.get of the unit refs raises the error of a failed unit; nothing in *)
(* train_and_evaluate or task catches it                                  *)
TaskCollectRaise(t) ==
    /\ t \in 1..Len(tasks)
    /\ tasks[t].pc = "waiting"
    /\ \E j \in Range(tasks[t].fin) : UnitFailed(tasks[t], j)
    /\ tasks' = [tasks EXCEPT ![t].pc = "raised", ![t].err = "unit",
                              ![t].overtook = Overtakes(t),
                              ![t].steps = Append(tasks[t].steps, "get")]
    /\ UNCHANGED << mode, files, models, runpc, fi, located, pg, pgRemoves,
                    loads, group_refs, store, results, count, count_not_none >>

----------------------------------------------------------------------------
(* run, from ray.get(task_refs) to its return *)

TaskResult(tk) == Tuple3(tk.file_name, tk.i, tk.ranking)

(* the results are collected as the pipelines complete: those of the     *)
(* pipelines that ended ahead of an earlier one come first                *)
GetOvertakersFirst(ts) ==
    LET os == SelectSeq(ts, LAMBDA x : x.overtook) \o
              SelectSeq(ts, LAMBDA x : ~x.overtook)
    IN [t \in 1..Len(os) |-> TaskResult(os[t])]

(* results = ray.get(task_refs): one result per ref, in the order of the  *)
(* refs                                                                   *)
GetAll(ts) == [t \in 1..Len(ts) |-> TaskResult(ts[t])]

RunGet ==
    /\ runpc = "get"
    /\ \A t \in 1..Len(tasks) : tasks[t].pc = "done"
    /\ LET rs == GetAll(tasks)
       IN /\ results' = rs
          /\ count' = Len(rs)
          /\ count_not_none' = Len(NotNone(rs))
    /\ runpc' = "done"
    /\ UNCHANGED << mode, files, models, fi, located, pg, pgRemoves, loads,
                    group_refs, store, tasks >>

(* ray.get(task_refs) raises the error of a failed task *)
RunGetRaise ==
    /\ runpc = "get"
    /\ \E t \in 1..Len(tasks) : tasks[t].pc = "raised"
    /\ runpc' = "raised"
    /\ UNCHANGED << mode, files, models, fi, located, pg, pgRemoves, loads,
                    group_refs, store, tasks, results, count, count_not_none >>

Next ==
    \/ GenLocate
    \/ PgCreate
    \/ PgReady
    \/ GenStage
    \/ \E p \in 1..Len(loads) : LoadStart(p)
    \/ \E p \in 1..Len(loads) : LoadRun(p)
    \/ GenGetLoads
    \/ GenGetLoadsRaise
    \/ GenDispatch
    \/ \E t \in 1..Len(tasks) : TaskRun(t)
    \/ \E t \in 1..Len(tasks) : \E j \in 1..Len(models) : UnitFinish(t, j)
    \/ \E t \in 1..Len(tasks) : TaskCollect(t)
    \/ \E t \in 1..Len(tasks) : TaskCollectRaise(t)
    \/ RunGet
    \/ RunGetRaise

Spec == Init /\ [][Next]_vars

----------------------------------------------------------------------------
(* Derived notions used by the properties *)

TaskIds == 1..Len(tasks)

RunEnded == runpc \in {"done", "raised"}

(* the generator has been drained or has raised *)
GenEnded == runpc \in {"get", "done", "raised"}

(* train_and_evaluate was entered by task t *)
Evaluated(t) == "evaluate" \in Range(tasks[t].steps)

(* number of failing routines among the units task t submitted *)
FailedUnits(t) ==
    { j \in 1..Len(tasks[t].uargs) : Fails(tasks[t].uargs[j].model) }

UnitFailureSeen == \E t \in TaskIds : tasks[t].err = "unit"

PipelineFailureSeen == \E t \in TaskIds : tasks[t].err \in {"load", "transform"}

StagingFailureSeen == \E p \in 1..Len(loads) : loads[p].st = "failed"

----------------------------------------------------------------------------
(* Properties *)

(* C1: a failing Trainer Unit never makes run fail: whenever run has      *)
(* raised, something other than a unit failure (a pipeline failing in     *)
(* load/transform, a staging task failing) has happened.                  *)
C1_UnitFailureIsolated ==
    runpc = "raised" => (PipelineFailureSeen \/ StagingFailureSeen)

(* C2: once train_and_evaluate has submitted n >= 1 units of which k fail *)
(* and all have finished and been collected, it has returned: the empty   *)
(* marker when k = n, a ranking of exactly n - k entries when k < n.      *)
C2_RankingDropsFailedUnits ==
    \A t \in TaskIds :
        LET n == Len(tasks[t].uargs)
            k == Cardinality(FailedUnits(t))
        IN (n >= 1 /\ Len(tasks[t].fin) = n /\ tasks[t].pc # "waiting")
           => /\ tasks[t].pc = "done"
              /\ (k = n => tasks[t].ranking.isNone)
              /\ (k < n => /\ ~tasks[t].ranking.isNone
                           /\ Len(tasks[t].ranking.list) = n - k)

(* C3: a failure while loading or transforming inside task never makes    *)
(* the task raise and never makes run fail: whenever run has raised, a    *)
(* unit failure or a staging failure has happened.                        *)
C3_PipelineFailureCaught ==
    /\ \A t \in TaskIds :
          tasks[t].err \in {"load", "transform"} => tasks[t].pc = "done"
    /\ runpc = "raised" => (UnitFailureSeen \/ StagingFailureSeen)

(* C4: a batch of fewer than 4 rows makes train_and_evaluate return the   *)
(* empty marker at once: no split, no put, no unit submitted.             *)
C4_SmallBatchReturnsNone ==
    \A t \in TaskIds :
        (Evaluated(t) /\ Len(tasks[t].df) < MinRows)
        => /\ tasks[t].pc = "done"
           /\ tasks[t].ranking = None
           /\ tasks[t].uargs = << >>
           /\ Range(tasks[t].steps) \cap {"split", "put", "submit"} = {}
           /\ TrainHandle(t) \notin DOMAIN store
           /\ TestHandle(t) \notin DOMAIN store

(* a pipeline whose batch has 1..3 rows has gone through train_and_evaluate *)
C4_Witness ==
    \E t \in TaskIds :
        /\ Evaluated(t)
        /\ Len(tasks[t].df) \in 1..(MinRows - 1)
        /\ tasks[t].pc = "done"

(* C5: the result-bearing count run reports is the number of results      *)
(* whose ranking is not the empty marker.                                 *)
C5_CountNotNoneIsNonEmpty ==
    runpc = "done"
    => count_not_none =
          Cardinality({ t \in 1..Len(results) : ~results[t].ranking.isNone })

(* the (source, key) pairs the locator step (direct) or the staging tasks *)
(* (staged) found                                                        *)
PairsOf(file) == { << file, KeysOf(file)[k] >> : k \in 1..Len(KeysOf(file)) }

Discovered ==
    IF mode = "direct"
    THEN UNION { PairsOf(files[p]) :
                 p \in { q \in 1..Len(located) : located[q] = "ok" } }
    ELSE UNION { PairsOf(loads[p].file) :
                 p \in { q \in 1..Len(loads) : loads[q].read = "ok" } }

(* C6: when run has ended, the attempted count it reports is the number   *)
(* of distinct (source, key) pairs discovered, each dispatched as exactly *)
(* one pipeline, failed pipelines included.                               *)
C6_AttemptedCountsDiscoveredPairs ==
    RunEnded => /\ count = Cardinality(Discovered)
                /\ Len(tasks) = Cardinality(Discovered)

(* C7: once task_generator_with_object_store has been left, by running to *)
(* its end or by an exception, remove_placement_group has been executed   *)
(* exactly once.                                                          *)
C7_ReservationReleased ==
    (mode = "staged" /\ GenEnded) => pgRemoves = 1

(* the (file_name, i) of the dispatched pipelines of one source, in order *)
KeysDispatched(file) ==
    LET mine == SelectSeq(tasks, LAMBDA tk : tk.file_name = file)
    IN [k \in 1..Len(mine) |-> mine[k].i]

LastPos(file) ==
    CHOOSE p \in 1..Len(files) :
        /\ files[p] = file
        /\ \A q \in (p + 1)..Len(files) : files[q] # file

(* the staged generator got past ray.get(load_tasks) and dispatched *)
StagedDispatched == mode = "staged" /\ GenEnded /\ pgRemoves = 1

(* C8: a source whose staging task could not read it contributes no       *)
(* pipeline, does not make the generator raise, and every source that was *)
(* read gets one pipeline per key.                                        *)
C8_StagedLoadFailureSkipped ==
    /\ (mode = "staged" /\ runpc = "raised" /\ tasks = << >>)
          => \E p \in 1..Len(loads) : loads[p].read = "putfail"
    /\ StagedDispatched
          => /\ \A t \in TaskIds : tasks[t].file_name \in Range(files)
             /\ \A f \in Range(files) :
                   KeysDispatched(f) =
                      IF loads[LastPos(f)].read = "ok" THEN KeysOf(f) ELSE << >>

(* one source could not be read by its staging task, another one was read *)
(* and has its pipelines                                                  *)
C8_Witness ==
    /\ StagedDispatched
    /\ \E p, q \in 1..Len(loads) :
          /\ loads[p].read = "unreadable"
          /\ loads[q].read = "ok"
          /\ files[p] # files[q]
          /\ KeysDispatched(files[p]) = << >>
          /\ KeysDispatched(files[q]) = KeysOf(files[q])

(* C9: in direct mode the pipelines dispatched are, file by file in list  *)
(* order, one per key of each file the locator could read and none for a  *)
(* file it could not read; the generator itself never aborts the run.     *)
C9_DirectUnreadableSkipped ==
    (mode = "direct" /\ GenEnded)
    => /\ Len(located) = Len(files)
       /\ [t \in TaskIds |-> << tasks[t].file_name, tasks[t].i >>] =
             Concat([p \in 1..Len(located) |->
                        IF located[p] = "ok"
                        THEN [k \in 1..Len(KeysOf(files[p])) |->
                                 << files[p], KeysOf(files[p])[k] >>]
                        ELSE << >>])
       /\ runpc = "raised" => \E t \in TaskIds : tasks[t].pc = "raised"

(* the first file of the list could not be read, a later one was and got  *)
(* its pipelines                                                          *)
C9_Witness ==
    /\ mode = "direct"
    /\ GenEnded
    /\ Len(located) >= 2
    /\ located[1] = "unreadable"
    /\ located[2] = "ok"
    /\ Len(tasks) = Len(KeysOf(files[2]))

(* C10: in every returned ranking, of two entries with equal error the    *)
(* one whose routine comes first in the models list comes first.          *)
C10_RankingStable ==
    \A t \in TaskIds :
        (tasks[t].pc = "done" /\ ~tasks[t].ranking.isNone)
        => \A a, b \in 1..Len(tasks[t].ranking.list) :
              (a < b /\ tasks[t].ranking.list[a].error
                          = tasks[t].ranking.list[b].error)
              => tasks[t].ranking.list[a].idx < tasks[t].ranking.list[b].idx

(* two routines tie, the later one's unit completed first, and the        *)
(* ranking has been returned                                              *)
C10_Witness ==
    \E t \in TaskIds :
        /\ tasks[t].pc = "done"
        /\ Len(tasks[t].ranking.list) >= 2
        /\ tasks[t].fin[1] = 2
        /\ tasks[t].ranking.list[1].error = tasks[t].ranking.list[2].error
        /\ tasks[t].ranking.list[1].model # tasks[t].ranking.list[2].model

(* number of occurrences of a step in the log of a task *)
StepCount(t, step) ==
    Cardinality({ n \in 1..Len(tasks[t].steps) : tasks[t].steps[n] = step })

IsSortedByError(l) ==
    \A a, b \in 1..Len(l) : a < b => l[a].error <= l[b].error

(* C11: a returned ranking holds each routine of the models list exactly  *)
(* once, each with the (model, error) its unit produced, in non-          *)
(* decreasing order of the error.                                         *)
C11_RankingSortedPermutation ==
    \A t \in TaskIds :
        (tasks[t].pc = "done" /\ ~tasks[t].ranking.isNone)
        => LET l == tasks[t].ranking.list
           IN /\ Len(l) = Len(models)
              /\ { l[a].idx : a \in 1..Len(l) } = 1..Len(models)
              /\ \A a \in 1..Len(l) :
                    /\ l[a].model = models[l[a].idx]
                    /\ l[a].error = Error(models[l[a].idx])
                    /\ ~l[a].raised
              /\ IsSortedByError(l)

(* the models list is in descending order of error and the ranking that   *)
(* was returned has it reversed                                           *)
C11_Witness ==
    \E t \in TaskIds :
        /\ tasks[t].pc = "done"
        /\ Len(tasks[t].ranking.list) = 2
        /\ Error(models[1]) > Error(models[2])
        /\ tasks[t].ranking.list[1].idx = 2
        /\ tasks[t].ranking.list[2].idx = 1

(* C12: a train_and_evaluate call on at least 4 rows splits once, puts    *)
(* train and test once each, submits exactly one unit per routine of the  *)
(* models list, and every unit gets the one train ref and the one test    *)
(* ref of the call.                                                       *)
C12_OneSplitSharedByAllUnits ==
    \A t \in TaskIds :
        (Evaluated(t) /\ Len(tasks[t].df) >= MinRows)
        => /\ StepCount(t, "split") = 1
           /\ StepCount(t, "put") = 2
           /\ StepCount(t, "submit") = Len(models)
           /\ Len(tasks[t].uargs) = Len(models)
           /\ tasks[t].train_ref \in DOMAIN store
           /\ tasks[t].test_ref \in DOMAIN store
           /\ tasks[t].train_ref # tasks[t].test_ref
           /\ \A j \in 1..Len(tasks[t].uargs) :
                 /\ tasks[t].uargs[j].model = models[j]
                 /\ tasks[t].uargs[j].train = tasks[t].train_ref
                 /\ tasks[t].uargs[j].test = tasks[t].test_ref

(* a call on 4 rows has submitted its units for two routines *)
C12_Witness ==
    \E t \in TaskIds :
        /\ Evaluated(t)
        /\ Len(tasks[t].df) >= MinRows
        /\ Len(tasks[t].uargs) = 2
        /\ tasks[t].uargs[1].train = tasks[t].uargs[2].train
        /\ tasks[t].uargs[1].test = tasks[t].uargs[2].test

(* task t went through train_test_split *)
Split(t) == Evaluated(t) /\ Len(tasks[t].df) >= MinRows

(* C13: two train_and_evaluate calls on the same batch (no seed differs   *)
(* between them: none is configured) produce the same train part and the  *)
(* same test part.                                                        *)
C13_SplitReproducible ==
    \A t, u \in TaskIds :
        (Split(t) /\ Split(u) /\ tasks[t].df = tasks[u].df)
        => /\ store[tasks[t].train_ref] = store[tasks[u].train_ref]
           /\ store[tasks[t].test_ref] = store[tasks[u].test_ref]

(* C14: a returned ranking is the empty marker or has at least one entry. *)
C14_RankingNeverEmptyAndPresent ==
    \A t \in TaskIds :
        tasks[t].pc = "done"
        => (tasks[t].ranking.isNone \/ Len(tasks[t].ranking.list) >= 1)

(* the on-demand load of task t ran *)
LoadRan(t) == tasks[t].load /\ "load" \in Range(tasks[t].steps)

(* the on-demand load of task t found no rows: the task returned and the  *)
(* batch it worked on, which transform_batch leaves as long as it was, is *)
(* empty                                                                  *)
LoadedEmpty(t) ==
    tasks[t].load /\ tasks[t].pc = "done" /\ tasks[t].df = << >>

(* C15: the on-demand load never makes the pipeline raise: an unreadable  *)
(* source and a key without rows both end in a returned result with the   *)
(* empty marker.                                                          *)
C15_LoadNeverAborts ==
    \A t \in TaskIds :
        LoadRan(t)
        => /\ ~(tasks[t].pc = "raised" /\ tasks[t].err = "load")
           /\ LoadedEmpty(t) => tasks[t].ranking = None

(* C16: whatever the order in which the pipelines complete, the list run *)
(* returns has one element per dispatched pipeline, in dispatch order:    *)
(* its i-th element is the result of the i-th dispatched pipeline and     *)
(* carries the source identifier and the key that pipeline was dispatched *)
(* with.                                                                  *)
C16_ResultsInDispatchOrder ==
    runpc = "done"
    => /\ Len(results) = Len(tasks)
       /\ \A t \in TaskIds :
            /\ ~results[t].isNone
            /\ results[t].file_name = tasks[t].file_name
            /\ results[t].i = tasks[t].i
            /\ results[t].ranking = tasks[t].ranking
            /\ tasks[t].data.file = tasks[t].file_name
            /\ ~tasks[t].load => tasks[t].data.h.i = tasks[t].i

(* run has returned the results of pipelines of which one ended ahead of  *)
(* an earlier-dispatched one with another result                          *)
C16_Witness ==
    /\ runpc = "done"
    /\ \E t, u \in TaskIds :
         /\ u < t
         /\ tasks[t].overtook
         /\ results[t] # results[u]

(* C17 as claimed: when the loaded batch has no rows, task returns the    *)
(* empty marker without invoking transform_batch or train_and_evaluate.   *)
C17_EmptyBatchSkipsTransformAndEvaluate ==
    \A t \in TaskIds :
        LoadedEmpty(t)
        => /\ tasks[t].ranking = None
           /\ "transform" \notin Range(tasks[t].steps)
           /\ "evaluate" \notin Range(tasks[t].steps)

(* C17 as amended: when the loaded batch has no rows, task returns the    *)
(* empty marker after applying transform_batch to the empty batch and     *)
(* entering train_and_evaluate once, which returns None at its size guard *)
(* without split, put or unit.                                            *)
C17_EmptyBatchReturnsNoneAtGuard ==
    \A t \in TaskIds :
        LoadedEmpty(t)
        => /\ tasks[t].ranking = None
           /\ tasks[t].steps = << "load", "transform", "evaluate" >>
           /\ tasks[t].uargs = << >>
           /\ TrainHandle(t) \notin DOMAIN store

(* a pipeline whose on-demand load found no rows has returned *)
C17_Witness ==
    \E t \in TaskIds : LoadedEmpty(t) /\ LoadRan(t)

(* C18: in staged mode the steps are strictly ordered: staging tasks      *)
(* exist only once the reservation has been ready, and partition          *)
(* pipelines exist only once every staging task has completed and the     *)
(* reservation has been released (exactly once).                          *)
C18_StagedStepsOrdered ==
    mode = "staged"
    => /\ loads # << >> => pg \in {"ready", "removed"}
       /\ (\E p \in 1..Len(loads) : loads[p].st = "running") => pg = "ready"
       /\ tasks # << >>
          => /\ loads # << >>
             /\ \A p \in 1..Len(loads) : loads[p].st = "done"
             /\ pg = "removed"
             /\ pgRemoves = 1

(* staged mode has submitted partition pipelines *)
C18_Witness ==
    mode = "staged" /\ tasks # << >> /\ \E t \in TaskIds : tasks[t].pc # "submitted"

(* the steps of the driver: run and the task generator it drains *)
DriverStep ==
    \/ GenLocate
    \/ PgCreate
    \/ GenStage
    \/ GenGetLoads
    \/ GenGetLoadsRaise
    \/ GenDispatch
    \/ RunGet
    \/ RunGetRaise

(* the driver has not ended and cannot take a step: it is suspended *)
DriverBlocked == ~RunEnded /\ ~ENABLED DriverStep

(* the steps by which train_and_evaluate of pipeline t leaves its ray.get *)
CollectStep(t) == TaskCollect(t) \/ TaskCollectRaise(t)

(* pipeline t has not ended, is not waiting to start and cannot take a    *)
(* step                                                                   *)
PipelineBlocked(t) ==
    /\ tasks[t].pc \notin {"done", "raised"}
    /\ ~TaskRunnable(t)
    /\ ~ENABLED CollectStep(t)

(* pipeline t is suspended only in train_and_evaluate's ray.get over the  *)
(* units it submitted, of which one has not finished                      *)
BlocksOnlyOnOwnUnits(t) ==
    PipelineBlocked(t)
    => /\ tasks[t].pc = "waiting"
       /\ Len(tasks[t].fin) < Len(tasks[t].uargs)

(* C19 as claimed: in every staging mode the driver is suspended only at  *)
(* the final barrier over the partition pipelines, and train_and_evaluate *)
(* only when collecting its own units.                                    *)
C19_SingleSuspensionPoint ==
    /\ DriverBlocked => runpc = "get"
    /\ \A t \in TaskIds : BlocksOnlyOnOwnUnits(t)

(* C19 as amended: in direct mode the driver is suspended only at the     *)
(* final barrier; in staged mode the generator is also suspended, before  *)
(* any pipeline exists, while the reservation is not ready and at the     *)
(* barrier over the staging tasks; train_and_evaluate is suspended only   *)
(* when collecting its own units.                                         *)
C19_SuspensionPoints ==
    /\ DriverBlocked
       => \/ runpc = "get" /\ \E t \in TaskIds : tasks[t].pc # "done"
          \/ /\ mode = "staged"
             /\ tasks = << >>
             /\ \/ runpc = "pgwait" /\ pg = "created"
                \/ /\ runpc = "getloads"
                   /\ \E p \in 1..Len(loads) : loads[p].st # "done"
    /\ \A t \in TaskIds : BlocksOnlyOnOwnUnits(t)

(* the staged generator is suspended at the barrier over the staging tasks *)
C19_Witness ==
    /\ mode = "staged"
    /\ DriverBlocked
    /\ runpc = "getloads"
    /\ \E p \in 1..Len(loads) : loads[p].st = "running"

(* the sources whose staging task was started on host h *)
StagedOn(h) ==
    { loads[p].file : p \in { q \in 1..Len(loads) :
                                loads[q].slot # 0 /\ HostOf(loads[q].slot) = h } }

(* the sources of which host h holds staged batches *)
HeldOn(h) ==
    { loads[p].file : p \in { q \in 1..Len(loads) :
                                /\ loads[q].slot # 0
                                /\ HostOf(loads[q].slot) = h
                                /\ loads[q].read = "ok" } }

(* C20: in staged mode one slot is reserved per source, every started     *)
(* staging task runs in a reserved slot while the reservation exists, no  *)
(* two sources are staged on the same host and no host holds the staged   *)
(* data of more than one source.                                          *)
C20_OneSourcePerHost ==
    mode = "staged"
    => /\ Cardinality(Bundles) = Len(files)
       /\ \A p \in 1..Len(loads) :
            loads[p].st # "pending" => loads[p].slot \in Bundles
       /\ \A b \in Bundles :
            /\ Cardinality(StagedOn(HostOf(b))) <= 1
            /\ Cardinality(HeldOn(HostOf(b))) <= 1

(* the place of a step in the order load, transform, evaluate (entry of   *)
(* train_and_evaluate), split, put, submit, get, sort                     *)
StepOrder(step) ==
    CASE step = "load" -> 1
      [] step = "transform" -> 2
      [] step = "evaluate" -> 3
      [] step = "split" -> 4
      [] step = "put" -> 5
      [] step = "submit" -> 6
      [] step = "get" -> 7
      [] step = "sort" -> 8

StepsInOrder(s) ==
    \A a, b \in 1..Len(s) : a < b => StepOrder(s[a]) <= StepOrder(s[b])

(* C21: within one task invocation the steps occur in the order load,     *)
(* transform, split, submit: the partition is loaded at most once (never  *)
(* when a staged batch was passed), a pipeline that split or submitted    *)
(* units applied transform_batch exactly once before, and the train and   *)
(* test batches in the store stay a split of the transformed batch while  *)
(* and after the units run.                                               *)
C21_StepsOrderedBatchUntouched ==
    \A t \in TaskIds :
        /\ StepsInOrder(tasks[t].steps)
        /\ StepCount(t, "load") <= 1
        /\ ~tasks[t].load => StepCount(t, "load") = 0
        /\ StepCount(t, "transform") <= 1
        /\ (StepCount(t, "split") > 0 \/ StepCount(t, "submit") > 0
              \/ tasks[t].pc = "done")
           => StepCount(t, "transform") = 1
        /\ Split(t)
           => [train |-> store[tasks[t].train_ref],
               test |-> store[tasks[t].test_ref]]
                 \in train_test_split(tasks[t].df)

(* a pipeline that loaded its partition itself has returned after two     *)
(* units ran on its train and test batches                                *)
C21_Witness ==
    \E t \in TaskIds :
        /\ tasks[t].load
        /\ tasks[t].pc = "done"
        /\ Len(tasks[t].uargs) = 2
        /\ Len(tasks[t].fin) = 2

(* the handles the staged generator holds after ray.get(load_tasks) *)
HeldHandles ==
    UNION { { group_refs[n].refs[k].ref : k \in 1..Len(group_refs[n].refs) } :
            n \in 1..Len(group_refs) }

(* C22: in staged mode the coordinator holds (key, handle) pairs only and *)
(* forwards each handle to at most one pipeline; a staged batch is read   *)
(* from its handle only by the pipeline it was passed to, which never     *)
(* loads the partition itself.                                            *)
C22_StagedBatchNeverAtCoordinator ==
    mode = "staged"
    => /\ \A h \in HeldHandles : h.kind = "batch" /\ h \in DOMAIN store
       /\ \A t \in TaskIds :
            /\ tasks[t].data.kind = "ref"
            /\ tasks[t].data.h \in HeldHandles
            /\ ~tasks[t].load
            /\ StepCount(t, "load") = 0
            /\ tasks[t].pc \in {"waiting", "done"}
               => tasks[t].df = transform_batch(store[tasks[t].data.h]).df
       /\ \A t, u \in TaskIds : t # u => tasks[t].data.h # tasks[u].data.h

(* a staged pipeline works on the batch it read from its handle while     *)
(* another pipeline, handed another handle, has not started               *)
C22_Witness ==
    /\ mode = "staged"
    /\ \E t, u \in TaskIds :
         /\ tasks[t].pc = "waiting"
         /\ tasks[t].df # << >>
         /\ tasks[u].pc = "submitted"

(* the rows task t was given: those of its partition in the source, or    *)
(* those behind the handle it was passed                                  *)
InputRows(t) ==
    IF tasks[t].load THEN Rows(tasks[t].data.file, tasks[t].i)
    ELSE store[tasks[t].data.h]

WellFormed(df) == SelectSeq(df, LAMBDA row : row # "bad")

(* C23: transform_batch never fails the pipeline on malformed rows: no    *)
(* pipeline raises in its transform step, and a pipeline that got past    *)
(* transform_batch on rows it was given works on those rows without the   *)
(* malformed ones.                                                        *)
C23_MalformedRowsDropped ==
    \A t \in TaskIds :
        /\ ~(tasks[t].pc = "raised" /\ tasks[t].err = "transform")
        /\ (tasks[t].pc = "waiting" /\ "bad" \in Range(InputRows(t)))
           => Len(tasks[t].df) = Len(WellFormed(InputRows(t)))

(* the (source, key) pairs of a sequence of pipelines, in order *)
PairsSeq(ts) == [k \in 1..Len(ts) |-> << ts[k].file_name, ts[k].i >>]

(* what task_generator dispatches for the sources fs when every source    *)
(* can be read                                                            *)
DirectDispatch(fs) == Concat([n \in 1..Len(fs) |-> DirectTasks(fs[n])])

(* what task_generator_with_object_store dispatches for the sources fs    *)
(* when every staging task reads its source                               *)
StagedDispatch(fs) ==
    StagedTasks(BuildGroupRefs(
        [p \in 1..Len(fs) |-> [file |-> fs[p], refs |-> StagedRefs(p, fs[p]),
                                overtook |-> FALSE]],
        Len(fs)))

(* the generator has ended without raising and every source was read *)
AllSourcesRead ==
    /\ runpc \in {"get", "done"}
    /\ IF mode = "direct"
       THEN Len(located) = Len(files)
            /\ \A p \in 1..Len(located) : located[p] = "ok"
       ELSE \A p \in 1..Len(loads) : loads[p].read = "ok"

(* C24: for every list of sources, repeated sources included, the two     *)
(* generators dispatch the same sequence of (source, key) pipelines on    *)
(* the same rows: a generator that read every source has dispatched what  *)
(* the direct one and what the staged one dispatch for the list.          *)
C24_ModesDispatchTheSame ==
    AllSourcesRead
    => /\ PairsSeq(tasks) = PairsSeq(DirectDispatch(files))
       /\ PairsSeq(tasks) = PairsSeq(StagedDispatch(files))
       /\ \A t \in TaskIds :
            ~tasks[t].load
            => store[tasks[t].data.h] = Rows(tasks[t].file_name, tasks[t].i)

(* C25: whatever the order in which the staging tasks complete, a staged  *)
(* pipeline for (source f, key i) holds the handle of the batch that the  *)
(* staging task of f put for key i, and the rows behind it are those of   *)
(* (f, i).                                                                *)
C25_StagedHandleMatchesPair ==
    mode = "staged"
    => \A t \in TaskIds :
          LET h == tasks[t].data.h
          IN /\ h.kind = "batch"
             /\ h.p \in 1..Len(loads)
             /\ loads[h.p].file = tasks[t].file_name
             /\ h.i = tasks[t].i
             /\ h \in DOMAIN store
             /\ store[h] = Rows(tasks[t].file_name, tasks[t].i)

(* the staging task of the second of two different sources completed      *)
(* first, and the pipelines of both sources were dispatched               *)
C25_Witness ==
    /\ mode = "staged"
    /\ Len(loads) = 2
    /\ loads[1].file # loads[2].file
    /\ loads[2].overtook
    /\ \E t, u \in TaskIds :
         tasks[t].file_name = loads[1].file /\ tasks[u].file_name = loads[2].file

----------------------------------------------------------------------------
(* Progress.  The driver runs; the cluster grants the reservation; a      *)
(* staging task is started once a bundle is free and then runs to its     *)
(* end; a worker blocked in ray.get does not keep its CPU, so whatever    *)
(* the number of CPUs a submitted pipeline or unit is eventually started, *)
(* and fit and predict return.                                            *)

(* most pipelines one run dispatches: a source has at most two keys *)
MaxTasks == 2 * MaxFiles

Fairness ==
    /\ WF_vars(DriverStep)
    /\ WF_vars(PgReady)
    /\ \A p \in 1..MaxFiles : WF_vars(LoadStart(p)) /\ WF_vars(LoadRun(p))
    /\ \A t \in 1..MaxTasks :
         /\ WF_vars(TaskRun(t))
         /\ WF_vars(CollectStep(t))
         /\ \A j \in 1..MaxModels : WF_vars(UnitFinish(t, j))

(* progress is checked on the runs that dispatch at most this many        *)
(* pipelines when every source is read                                    *)
MaxLivePipelines == 2

InitLive == Init /\ Len(DirectDispatch(files)) <= MaxLivePipelines

FairSpec == InitLive /\ [][Next]_vars /\ Fairness

(* a submitted unit that has not finished can run: it waits on nothing *)
UnitsWaitOnNothing ==
    \A t \in TaskIds :
        \A j \in 1..Len(tasks[t].uargs) :
            j \notin Range(tasks[t].fin) => ENABLED UnitFinish(t, j)

(* the driver, when suspended, waits for the reservation, for staging     *)
(* tasks or for pipelines, one of which can take a step or has a unit     *)
(* that can                                                               *)
DriverWaitsDownward ==
    DriverBlocked
    => \/ runpc = "pgwait" /\ ENABLED PgReady
       \/ /\ runpc = "getloads"
          /\ \E p \in 1..Len(loads) : ENABLED (LoadStart(p) \/ LoadRun(p))
       \/ /\ runpc = "get"
          /\ \E t \in TaskIds : tasks[t].pc \in {"submitted", "waiting"}

====
